---- MODULE Spec2Model ----
(***************************************************************************)
(* The four model-viewer samples of the repository as one state machine.   *)
(*                                                                         *)
(*   BS  src/babylonjs-test/src/components/BabylonScene.vue                *)
(*   P0  src/unnamed/part_000   (static page, Vue + Babylon from a CDN)    *)
(*   P1  src/unnamed/part_001   (wrapper around the <babylon-viewer> tag)  *)
(*   P2  src/unnamed/part_002   (component with a modelUrl prop)           *)
(*                                                                         *)
(* `variant` says which sample the page runs; it is chosen in Init and     *)
(* never changes.  Each sample has one record variable that holds its      *)
(* module-level variables and refs under the names the source uses,        *)
(* together with what the browser and the engine hold for it (registered   *)
(* listeners, engines and scenes not yet disposed, file reads and imports  *)
(* in flight).                                                             *)
(*                                                                         *)
(* Lengths and coordinates of the camera are kept in hundredths of a       *)
(* world unit, so that the factors 0.1, 1.5, 2.5 and the halving of the    *)
(* framing code stay exact in integers.                                    *)
(***************************************************************************)
EXTENDS Integers, Sequences, FiniteSets, TLC

VARIABLES variant, bs, p0, p1, p2

vars == <<variant, bs, p0, p1, p2>>

\* Load requests one component instance receives.
MaxLoads == 2
\* Engine set-ups (P2: initializeBabylon runs; P1: viewerready events).
MaxInits == 2
\* Meshes of one imported file where the framing code is checked on its own.
MaxMeshes == 2

Variants == {"BS", "P0", "P1", "P2"}

NULL == "null"

Min2(a, b) == IF a <= b THEN a ELSE b
Max2(a, b) == IF a >= b THEN a ELSE b

SeqToSet(s) == {s[i] : i \in 1..Len(s)}

NoCamera == [exists |-> FALSE]
NoRoot == [exists |-> FALSE]
Zero3 == <<0, 0, 0>>
Negate(v) == <<0 - v[1], 0 - v[2], 0 - v[3]>>

(***************************************************************************)
(* What an import can deliver: the mesh lists of the GLB files at hand.    *)
(* A mesh carries what the samples read of it: its name, isVisible,        *)
(* whether it exposes getBoundingInfo, and the corners of its world        *)
(* bounding box (in world units).                                          *)
(***************************************************************************)
MeshOf(nm, lo, hi) ==
    [name |-> nm, isVisible |-> TRUE, hasBoundingInfo |-> TRUE,
     minimumWorld |-> lo, maximumWorld |-> hi]

BodyMesh == MeshOf("body", <<-1, -1, -1>>, <<1, 1, 1>>)
WheelMesh == MeshOf("wheel", <<0, 0, 0>>, <<2, 2, 2>>)

\* An empty GLB, a one-mesh model and a two-mesh model.
ModelFiles == {<< >>, <<BodyMesh>>, <<BodyMesh, WheelMesh>>}

\* A mesh that lies in the negative octant, and a node of the import that
\* exposes no getBoundingInfo (the test of BabylonScene.vue line 223).
KeelMesh == MeshOf("keel", <<-3, -3, -3>>, <<-1, -1, -1>>)
BareNode ==
    [name |-> "node", isVisible |-> TRUE, hasBoundingInfo |-> FALSE,
     minimumWorld |-> Zero3, maximumWorld |-> Zero3]

\* Meshes the filter of calculateBoundingInfo (part_000 line 191) leaves out:
\* an invisible one, and two whose names contain "ground" and "skybox".
HiddenMesh ==
    [name |-> "hidden", isVisible |-> FALSE, hasBoundingInfo |-> TRUE,
     minimumWorld |-> <<-4, -4, -4>>, maximumWorld |-> Zero3]
GroundMesh == MeshOf("playground", <<-5, -5, -5>>, <<7, 7, 7>>)
SkyMesh == MeshOf("skybox_top", <<-9, -9, -9>>, <<5, 5, 5>>)

\* A model sixty units across.
HullMesh == MeshOf("hull", <<-30, -30, -30>>, <<30, 30, 30>>)

Meshes == {BodyMesh, WheelMesh, KeelMesh, BareNode,
           HiddenMesh, GroundMesh, SkyMesh, HullMesh}

\* Every mesh list of at most MaxMeshes meshes, in every order.
MeshLists == UNION {[1..n -> Meshes] : n \in 0..MaxMeshes}

\* The messages an import can reject with (Error.message; "" is the empty one).
RejectMessages == {"", "Unable to load"}

\* The handles of the meshes import `imp` created in scene `sc` from `file`.
ImportedMeshes(imp, sc, file) ==
    [j \in 1..Len(file) |-> [imp |-> imp, idx |-> j, scene |-> sc]]

\* BABYLON.Vector3.Minimize / Maximize / Center, and the largest axis.
Minimize(a, b) == <<Min2(a[1], b[1]), Min2(a[2], b[2]), Min2(a[3], b[3])>>
Maximize(a, b) == <<Max2(a[1], b[1]), Max2(a[2], b[2]), Max2(a[3], b[3])>>
Center100(lo, hi) ==
    <<(lo[1] + hi[1]) * 50, (lo[2] + hi[2]) * 50, (lo[3] + hi[3]) * 50>>
MaxAxis(lo, hi) == Max2(hi[1] - lo[1], Max2(hi[2] - lo[2], hi[3] - lo[3]))

(***************************************************************************)
(*                          BabylonScene.vue (BS)                          *)
(***************************************************************************)

BSInit ==
    [mounted |-> "pre",          \* "pre", "mounted" (canvasRef set), "unmounted"
     windowLoad |-> "pending",   \* the window's load event: pending, fired, never
     loadListener |-> FALSE,     \* the anonymous load listener of onMounted
     timerPending |-> FALSE,     \* the 500 ms fallback timer
     canvasListeners |-> FALSE,  \* wheel / touchmove preventScroll on the canvas
     loadingStatus |-> "",
     engine |-> 0, scene |-> 0,  \* 0 is null, n > 0 the n-th object created
     loadedModel |-> << >>,
     resizeHandler |-> 0,
     camera |-> NoCamera,        \* scene.activeCamera of the current scene
     modelRoot |-> NoRoot,       \* the modelRoot node of the last framed import
     framingTimers |-> {},       \* 100 ms framing timers not yet fired
     resizeTimeout |-> {},       \* initScene closures whose resizeTimeout is set
     resizeCalls |-> 0,          \* engine.resize() calls since the last resize event
     nextGen |-> 1,
     liveEngines |-> {}, liveScenes |-> {},   \* created and not disposed
     loops |-> {},               \* engines whose render loop runs
     resizeListeners |-> {},     \* resize handlers registered on window
     meshes |-> {},              \* imported meshes not disposed
     reads |-> {},               \* FileReader reads in flight
     imports |-> {},             \* ImportMesh calls in flight
     nextLoad |-> 1,
     uncaught |-> FALSE]

\* ArcRotateCamera of initScene: radius 10, target origin, limits 0.1 .. 100.
\* zoomedOn is the import whose meshes the framing behaviour last zoomed on
\* (zoomOnMeshesHierarchy retargets the camera and animates its radius).
BS_NewCamera ==
    [exists |-> TRUE, target |-> Zero3, radius |-> 1000,
     lowerRadiusLimit |-> 10, upperRadiusLimit |-> 10000, zoomedOn |-> 0]

\* initScene: returns at once without a canvas, else builds engine, scene,
\* camera, render loop and resize listener.  It has no guard of its own against
\* a second run.
BS_initScene(st) ==
    IF st.mounted # "mounted" THEN st
    ELSE LET g == st.nextGen IN
         [st EXCEPT !.canvasListeners = TRUE,
                    !.engine = g,
                    !.scene = g,
                    !.camera = BS_NewCamera,
                    !.liveEngines = @ \cup {g},
                    !.liveScenes = @ \cup {g},
                    !.loops = @ \cup {g},
                    !.resizeHandler = g,
                    !.resizeListeners = @ \cup {g},
                    !.nextGen = g + 1]

\* onMounted: registers the load listener and arms the fallback timer.
BS_onMounted(st, loadState) ==
    [st EXCEPT !.mounted = "mounted",
               !.windowLoad = loadState,
               !.loadListener = TRUE,
               !.timerPending = TRUE]

\* The load listener of onMounted: sizes the canvas and calls initScene.
BS_onWindowLoad(st) == BS_initScene([st EXCEPT !.windowLoad = "fired"])

\* The fallback timer of onMounted.
BS_onFallbackTimer(st) ==
    LET s1 == [st EXCEPT !.timerPending = FALSE] IN
    IF s1.engine = 0 THEN BS_initScene(s1) ELSE s1

\* A handleFileImport that leaves the previous meshes in the scene.
BS_DisposeNone(st, list) == st

\* mesh.dispose() on every mesh of a list.
BS_DisposeAll(st, list) == [st EXCEPT !.meshes = @ \ SeqToSet(list)]

\* handleFileImport up to reader.readAsArrayBuffer.
BS_handleFileImport(st, hasFile) ==
    IF ~hasFile \/ st.scene = 0 THEN st
    ELSE LET s1 == [st EXCEPT !.loadingStatus = "Loading file..."]
             s2 == IF Len(s1.loadedModel) > 0
                   THEN [BS_DisposeAll(s1, s1.loadedModel)
                            EXCEPT !.loadedModel = << >>]
                   ELSE s1
         IN [s2 EXCEPT !.reads = @ \cup {s2.nextLoad},
                       !.nextLoad = @ + 1]

\* reader.onload / reader.onerror.  "content": ImportMesh is called on the
\* scene the variable holds now; "throws": ImportMesh throws synchronously.
BS_onReaderDone(st, r, outcome) ==
    LET s1 == [st EXCEPT !.reads = @ \ {r}] IN
    CASE outcome = "error" ->
            [s1 EXCEPT !.loadingStatus = "Error: Failed to read the file"]
      [] outcome = "empty" ->
            [s1 EXCEPT !.loadingStatus = "Error: Could not read file"]
      [] outcome = "throws" ->
            [s1 EXCEPT !.loadingStatus = "Exception"]
      [] OTHER ->
            [s1 EXCEPT !.imports = @ \cup {[id |-> r, scene |-> s1.scene]}]

\* Number.MAX_VALUE (1.8e308) stands above every coordinate and every sum of
\* two coordinates; a magnitude above it is what the doubles overflow to
\* Infinity.  Number.MIN_VALUE is the smallest positive double (5e-324), which
\* is 0 at the precision kept here.
MAX_VALUE == 1000000
MIN_VALUE == 0

\* Lines 218-231: min and max accumulated over the meshes that expose
\* getBoundingInfo, starting from MAX_VALUE and MIN_VALUE.
RECURSIVE BS_AccumulateMin(_, _)
BS_AccumulateMin(file, acc) ==
    IF file = << >> THEN acc
    ELSE LET m == Head(file) IN
         BS_AccumulateMin(Tail(file),
            IF m.hasBoundingInfo THEN Minimize(acc, m.minimumWorld) ELSE acc)

RECURSIVE BS_AccumulateMax(_, _)
BS_AccumulateMax(file, acc) ==
    IF file = << >> THEN acc
    ELSE LET m == Head(file) IN
         BS_AccumulateMax(Tail(file),
            IF m.hasBoundingInfo THEN Maximize(acc, m.maximumWorld) ELSE acc)

\* Lines 218-236: the accumulated corners of the model.
BS_Min(file) == BS_AccumulateMin(file, <<MAX_VALUE, MAX_VALUE, MAX_VALUE>>)
BS_Max(file) == BS_AccumulateMax(file, <<MIN_VALUE, MIN_VALUE, MIN_VALUE>>)

\* Line 243: modelRoot.position = center.scale(-1).
BS_RootPosition(file) == Negate(Center100(BS_Min(file), BS_Max(file)))

\* Lines 216-270: camera target at the origin, radius 2 x the largest axis.
BS_Frame(cam, file) ==
    LET lo == BS_Min(file)
        hi == BS_Max(file)
    IN IF cam.exists
       THEN [cam EXCEPT !.target = Zero3, !.radius = MaxAxis(lo, hi) * 200]
       ELSE cam

\* The success callback of ImportMesh.  With an active camera it arms the
\* 100 ms timer that calls zoomOnMeshesHierarchy(meshes).
BS_onSuccess(st, imp, file) ==
    LET ms == ImportedMeshes(imp.id, imp.scene, file)
        s1 == [st EXCEPT !.imports = @ \ {imp},
                         !.meshes = @ \cup SeqToSet(ms),
                         !.loadedModel = ms]
    IN IF Len(file) = 0
       THEN [s1 EXCEPT !.loadingStatus = "Warning: No meshes were loaded"]
       ELSE [s1 EXCEPT !.loadingStatus = "Model loaded successfully",
                       !.modelRoot = [exists |-> TRUE,
                                      position |-> BS_RootPosition(file)],
                       !.camera = BS_Frame(s1.camera, file),
                       !.framingTimers =
                           IF s1.camera.exists
                           THEN @ \cup {[imp |-> imp.id, meshes |-> ms,
                                         scene |-> s1.scene]}
                           ELSE @]

\* The framing timer of line 266: camera.framingBehavior?.zoomOnMeshesHierarchy
\* on the camera the callback captured, the active camera of the scene the
\* variable held at completion; a disposed camera has no behaviour.
BS_onFramingTimer(st, t) ==
    LET s1 == [st EXCEPT !.framingTimers = @ \ {t}] IN
    IF s1.camera.exists /\ t.scene = s1.scene
    THEN [s1 EXCEPT !.camera.zoomedOn = t.imp]
    ELSE s1

\* resizeHandler (lines 127-138), run for every handler on window: each
\* closure clears its own timer and arms a new one.
BS_onWindowResize(st) ==
    [st EXCEPT !.resizeTimeout = @ \cup st.resizeListeners,
               !.resizeCalls = 0]

\* The debounce timer of closure g (lines 132-137): engine is the module
\* variable, whichever initScene set it last.
BS_onResizeTimer(st, g) ==
    LET s1 == [st EXCEPT !.resizeTimeout = @ \ {g}] IN
    IF s1.engine # 0 THEN [s1 EXCEPT !.resizeCalls = @ + 1] ELSE s1

\* The progress callback of ImportMesh.
BS_onProgress(st) == [st EXCEPT !.loadingStatus = "Loading: n%"]

\* An error callback that also puts the camera back to its initial distance.
BS_onError_ResetCamera(st, imp) ==
    [st EXCEPT !.imports = @ \ {imp}, !.loadingStatus = "Error: message",
               !.camera = IF @.exists THEN [@ EXCEPT !.radius = 1000] ELSE @]

\* The error callback of ImportMesh.
BS_onError(st, imp) ==
    [st EXCEPT !.imports = @ \ {imp}, !.loadingStatus = "Error: message"]

\* scene.dispose(): disposes the scene's meshes and clears its activeCamera.
\* On null the call throws a TypeError.
BS_DisposeScene(st, sc) ==
    IF sc = 0 THEN [st EXCEPT !.uncaught = TRUE]
    ELSE [st EXCEPT !.liveScenes = @ \ {sc},
                    !.meshes = {m \in @ : m.scene # sc},
                    !.camera = IF st.scene = sc THEN NoCamera ELSE @]

\* engine.dispose(): stops the engine's render loop.  Throws on null.
BS_DisposeEngine(st, e) ==
    IF e = 0 THEN [st EXCEPT !.uncaught = TRUE]
    ELSE [st EXCEPT !.liveEngines = @ \ {e}, !.loops = @ \ {e}]

\* onBeforeUnmount.
BS_onBeforeUnmount(st) ==
    LET s1 == IF Len(st.loadedModel) > 0
              THEN BS_DisposeAll(st, st.loadedModel) ELSE st
        s2 == IF s1.scene # 0 THEN BS_DisposeScene(s1, s1.scene) ELSE s1
        s3 == IF s2.engine # 0 THEN BS_DisposeEngine(s2, s2.engine) ELSE s2
        s4 == [s3 EXCEPT !.canvasListeners = FALSE]
        s5 == IF s4.resizeHandler # 0
              THEN [s4 EXCEPT !.resizeListeners = @ \ {s4.resizeHandler}]
              ELSE s4
    IN [s5 EXCEPT !.mounted = "unmounted"]

BS_Mount ==
    /\ variant = "BS" /\ bs.mounted = "pre"
    /\ \E loadState \in {"pending", "never"} : bs' = BS_onMounted(bs, loadState)
    /\ UNCHANGED <<variant, p0, p1, p2>>

BS_WindowLoad ==
    /\ variant = "BS" /\ bs.loadListener /\ bs.windowLoad = "pending"
    /\ bs' = BS_onWindowLoad(bs)
    /\ UNCHANGED <<variant, p0, p1, p2>>

BS_FallbackTimer ==
    /\ variant = "BS" /\ bs.timerPending
    /\ bs' = BS_onFallbackTimer(bs)
    /\ UNCHANGED <<variant, p0, p1, p2>>

BS_FileChosen ==
    /\ variant = "BS" /\ bs.mounted = "mounted" /\ bs.nextLoad <= MaxLoads
    /\ \E hasFile \in BOOLEAN :
          /\ bs' = BS_handleFileImport(bs, hasFile)
          /\ bs' # bs
    /\ UNCHANGED <<variant, p0, p1, p2>>

BS_ReaderDone ==
    /\ variant = "BS"
    /\ \E r \in bs.reads, outcome \in {"content", "empty", "error", "throws"} :
          bs' = BS_onReaderDone(bs, r, outcome)
    /\ UNCHANGED <<variant, p0, p1, p2>>

BS_ImportProgress ==
    /\ variant = "BS" /\ bs.imports # {}
    /\ bs' = BS_onProgress(bs)
    /\ UNCHANGED <<variant, p0, p1, p2>>

\* An ImportMesh call succeeds with one of `files`.
BS_ImportSuccessOf(files) ==
    /\ variant = "BS"
    /\ \E imp \in bs.imports, file \in files : bs' = BS_onSuccess(bs, imp, file)
    /\ UNCHANGED <<variant, p0, p1, p2>>

BS_ImportSuccess == BS_ImportSuccessOf(ModelFiles)

BS_ImportError ==
    /\ variant = "BS"
    /\ \E imp \in bs.imports : bs' = BS_onError(bs, imp)
    /\ UNCHANGED <<variant, p0, p1, p2>>

BS_Unmount ==
    /\ variant = "BS" /\ bs.mounted = "mounted"
    /\ bs' = BS_onBeforeUnmount(bs)
    /\ UNCHANGED <<variant, p0, p1, p2>>

BS_FramingTimer ==
    /\ variant = "BS"
    /\ \E t \in bs.framingTimers : bs' = BS_onFramingTimer(bs, t)
    /\ UNCHANGED <<variant, p0, p1, p2>>

\* The window dispatches a resize event to the handlers registered on it.
BS_WindowResize ==
    /\ variant = "BS" /\ bs.resizeListeners # {}
    /\ bs' = BS_onWindowResize(bs)
    /\ UNCHANGED <<variant, p0, p1, p2>>

BS_ResizeTimer ==
    /\ variant = "BS"
    /\ \E g \in bs.resizeTimeout : bs' = BS_onResizeTimer(bs, g)
    /\ UNCHANGED <<variant, p0, p1, p2>>

BSNext ==
    \/ BS_Mount \/ BS_WindowLoad \/ BS_FallbackTimer \/ BS_FileChosen
    \/ BS_ReaderDone \/ BS_ImportProgress \/ BS_ImportSuccess \/ BS_ImportError
    \/ BS_Unmount \/ BS_FramingTimer \/ BS_WindowResize \/ BS_ResizeTimer

(***************************************************************************)
(*                        part_000 (P0), static page                       *)
(***************************************************************************)

P0Init ==
    [mounted |-> "pre",
     modelLoaded |-> FALSE,
     engine |-> 0, scene |-> 0,
     camera |-> NoCamera,
     loops |-> {}, resizeListeners |-> {},
     meshes |-> {},              \* meshes of scene.meshes, imported or "root"
     imports |-> {},             \* ImportMesh calls in flight
     nextLoad |-> 1]

\* ArcRotateCamera of createScene: radius 5, limits 2 .. 10.
P0_NewCamera ==
    [exists |-> TRUE, target |-> Zero3, radius |-> 500,
     lowerRadiusLimit |-> 200, upperRadiusLimit |-> 1000]

\* onMounted -> initBabylon -> createScene.
P0_initBabylon(st) ==
    [st EXCEPT !.mounted = "mounted", !.engine = 1, !.scene = 1,
               !.camera = P0_NewCamera, !.loops = {1}, !.resizeListeners = {1}]

\* name.includes("ground") and name.includes("skybox") over the names in use.
NamesWithGround == {"ground", "playground"}
NamesWithSkybox == {"skybox", "skybox_top"}

\* clearModels: disposes every mesh of the scene that is not named "ground"
\* and has no "skybox" in its name.
P0_clearModels(st) ==
    IF st.scene # 0
    THEN [st EXCEPT !.meshes =
            {m \in @ : m.name = "ground" \/ m.name \in NamesWithSkybox}]
    ELSE st

\* A filter that does not look at the name of the mesh.
P0_Qualifies_AnyName(m) == m.hasBoundingInfo /\ m.isVisible

\* The test of line 191.
P0_Qualifies(m) ==
    /\ m.hasBoundingInfo /\ m.isVisible
    /\ m.name \notin NamesWithGround /\ m.name \notin NamesWithSkybox

\* A calculateBoundingInfo without the test of minX === Infinity: the corners
\* stay at +-Infinity, so the center and the radius are not finite numbers.
P0_calculateBoundingInfo_NoDefault(file) ==
    LET q == SelectSeq(file, P0_Qualifies) IN
    IF q = << >>
    THEN [center |-> <<200 * MAX_VALUE, 200 * MAX_VALUE, 200 * MAX_VALUE>>,
          radius |-> 200 * MAX_VALUE]
    ELSE LET Lo[i \in 1..Len(q)] ==
                 IF i = 1 THEN q[1].minimumWorld
                 ELSE Minimize(Lo[i - 1], q[i].minimumWorld)
             Hi[i \in 1..Len(q)] ==
                 IF i = 1 THEN q[1].maximumWorld
                 ELSE Maximize(Hi[i - 1], q[i].maximumWorld)
             lo == Lo[Len(q)]
             hi == Hi[Len(q)]
         IN [center |-> Center100(lo, hi), radius |-> MaxAxis(lo, hi) * 50]

\* calculateBoundingInfo: center and radius (half the largest axis) over the
\* qualifying meshes, or the default (origin, 5) when there is none.
P0_calculateBoundingInfo(file) ==
    LET q == SelectSeq(file, P0_Qualifies) IN
    IF q = << >> THEN [center |-> Zero3, radius |-> 500]
    ELSE LET Lo[i \in 1..Len(q)] ==
                 IF i = 1 THEN q[1].minimumWorld
                 ELSE Minimize(Lo[i - 1], q[i].minimumWorld)
             Hi[i \in 1..Len(q)] ==
                 IF i = 1 THEN q[1].maximumWorld
                 ELSE Maximize(Hi[i - 1], q[i].maximumWorld)
             lo == Lo[Len(q)]
             hi == Hi[Len(q)]
         IN [center |-> Center100(lo, hi), radius |-> MaxAxis(lo, hi) * 50]

\* uploadModel / loadDefaultModel up to the ImportMesh call.
P0_startLoad(st, src) ==
    LET s1 == P0_clearModels(st) IN
    [s1 EXCEPT !.imports = @ \cup {[id |-> s1.nextLoad, src |-> src]},
               !.nextLoad = @ + 1]

P0_uploadModel(st, hasFile) == IF ~hasFile THEN st ELSE P0_startLoad(st, "file")

P0_loadDefaultModel(st) == P0_startLoad(st, "default")

\* The success callback of both ImportMesh calls (lines 120-140, 152-171).
P0_onSuccess(st, imp, file) ==
    LET info == P0_calculateBoundingInfo(file)
        root == [imp |-> imp.id, idx |-> 0, name |-> "root"]
        ms == {[imp |-> imp.id, idx |-> j, name |-> file[j].name] :
                   j \in 1..Len(file)}
    IN [st EXCEPT !.imports = @ \ {imp},
                  !.meshes = @ \cup {root} \cup ms,
                  !.camera = [@ EXCEPT !.target = info.center,
                                       !.radius = (info.radius * 5) \div 2],
                  !.modelLoaded = TRUE]

\* ImportMesh is given no error callback: a failed import changes nothing.
P0_onFailure(st, imp) == [st EXCEPT !.imports = @ \ {imp}]

P0_Mount ==
    /\ variant = "P0" /\ p0.mounted = "pre"
    /\ p0' = P0_initBabylon(p0)
    /\ UNCHANGED <<variant, bs, p1, p2>>

P0_FileChosen ==
    /\ variant = "P0" /\ p0.mounted = "mounted" /\ p0.nextLoad <= MaxLoads
    /\ \E hasFile \in BOOLEAN :
          /\ p0' = P0_uploadModel(p0, hasFile)
          /\ p0' # p0
    /\ UNCHANGED <<variant, bs, p1, p2>>

\* The button is rendered only while modelLoaded is false (v-if, line 48).
P0_DefaultClicked ==
    /\ variant = "P0" /\ p0.mounted = "mounted" /\ p0.nextLoad <= MaxLoads
    /\ ~p0.modelLoaded
    /\ p0' = P0_loadDefaultModel(p0)
    /\ UNCHANGED <<variant, bs, p1, p2>>

P0_ImportSuccessOf(files) ==
    /\ variant = "P0"
    /\ \E imp \in p0.imports, file \in files : p0' = P0_onSuccess(p0, imp, file)
    /\ UNCHANGED <<variant, bs, p1, p2>>

P0_ImportSuccess == P0_ImportSuccessOf(ModelFiles)

P0_ImportFailure ==
    /\ variant = "P0"
    /\ \E imp \in p0.imports : p0' = P0_onFailure(p0, imp)
    /\ UNCHANGED <<variant, bs, p1, p2>>

P0Next ==
    \/ P0_Mount \/ P0_FileChosen \/ P0_DefaultClicked
    \/ P0_ImportSuccess \/ P0_ImportFailure

(***************************************************************************)
(*                 part_001 (P1), the <babylon-viewer> wrapper             *)
(*                                                                         *)
(* The viewer is outside the repository.  A call of viewer.loadModel is a  *)
(* record in `calls`; the viewer settles its promise and dispatches its    *)
(* modelchange / modelerror event in either order, with one outcome.       *)
(***************************************************************************)

P1Init ==
    [mounted |-> "pre",          \* "mounted": viewerElement.value is set
     readyListener |-> FALSE,    \* viewerready listener on the element
     modelListeners |-> FALSE,   \* modelchange and modelerror listeners
     viewerInstance |-> 0,       \* 0 is null
     viewerDisposed |-> FALSE,
     isModelLoaded |-> FALSE,
     isLoading |-> FALSE,
     isViewerReady |-> FALSE,
     loadError |-> NULL,
     calls |-> {},               \* loadModel calls the viewer has not finished
     nextLoad |-> 1,
     readyEvents |-> 0,
     uncaught |-> FALSE]

\* onMounted.
P1_onMounted(st) == [st EXCEPT !.mounted = "mounted", !.readyListener = TRUE]

\* onViewerReady; hasViewer: viewerDetails and viewerDetails.viewer are set.
P1_onViewerReady(st, hasViewer) ==
    IF st.mounted # "mounted" THEN st
    ELSE IF hasViewer
    THEN [st EXCEPT !.viewerInstance = 1,
                    !.isViewerReady = TRUE,
                    !.loadError = NULL,
                    !.modelListeners = TRUE]
    ELSE [st EXCEPT !.loadError =
                       "Viewer initialized, but API instance could not be accessed.",
                    !.isViewerReady = FALSE]

\* onModelChange; detail: event.detail is truthy.
P1_onModelChange(st, detail) ==
    IF detail
    THEN [st EXCEPT !.isLoading = FALSE, !.isModelLoaded = TRUE, !.loadError = NULL]
    ELSE [st EXCEPT !.isLoading = FALSE, !.isModelLoaded = FALSE]

\* onModelError; msg is event.message, hasError: event.error is set.
P1_onModelError(st, msg, hasError) ==
    [st EXCEPT !.isLoading = FALSE,
               !.isModelLoaded = FALSE,
               !.loadError = IF msg # "" THEN msg
                             ELSE IF hasError THEN "Error"
                             ELSE "Unknown model loading error."]

NewCall(id, kind, fires) ==
    [id |-> id, kind |-> kind, outcome |-> "open", settled |-> FALSE,
     dispatched |-> ~fires]

\* loadModelIntoViewer up to its await.
P1_loadModelIntoViewer(st) ==
    IF ~st.isViewerReady \/ st.viewerInstance = 0
    THEN [st EXCEPT !.loadError = "Viewer not ready. Cannot load model."]
    ELSE [st EXCEPT !.isLoading = TRUE,
                    !.loadError = NULL,
                    !.calls = @ \cup {NewCall(st.nextLoad, "file", TRUE)},
                    !.nextLoad = @ + 1]

\* handleFileChange up to its await.
P1_handleFileChange(st, hasFile) ==
    IF hasFile THEN P1_loadModelIntoViewer(st) ELSE st

\* clearModel up to its await; fires: the viewer dispatches modelchange for null.
P1_clearModel(st, fires) ==
    IF ~st.isViewerReady \/ st.viewerInstance = 0 THEN st
    ELSE [st EXCEPT !.isLoading = TRUE,
                    !.loadError = NULL,
                    !.calls = @ \cup {NewCall(st.nextLoad, "null", fires)},
                    !.nextLoad = @ + 1]

\* A call leaves `calls` once its promise is settled and its event dispatched.
P1_Update(st, c, d) ==
    [st EXCEPT !.calls = (@ \ {c}) \cup
                   (IF d.settled /\ d.dispatched THEN {} ELSE {d})]

\* After the await of loadModelIntoViewer (lines 112-119).
P1_afterLoad(st, ok, msg) ==
    IF ok THEN st
    ELSE [st EXCEPT !.loadError = IF msg # "" THEN msg
                                  ELSE "Error initiating model load.",
                    !.isLoading = FALSE,
                    !.isModelLoaded = FALSE]

\* A clearModel whose catch block leaves isModelLoaded as it is.
P1_afterClear_KeepLoaded(st, ok) ==
    IF ok THEN [st EXCEPT !.isModelLoaded = FALSE, !.isLoading = FALSE]
    ELSE [st EXCEPT !.loadError = "Failed to clear model.",
                    !.isLoading = FALSE]

\* After the await of clearModel (lines 137-150).
P1_afterClear(st, ok) ==
    IF ok THEN [st EXCEPT !.isModelLoaded = FALSE, !.isLoading = FALSE]
    ELSE [st EXCEPT !.loadError = "Failed to clear model.",
                    !.isLoading = FALSE,
                    !.isModelLoaded = FALSE]

\* onBeforeUnmount.
P1_onBeforeUnmount(st) ==
    LET s1 == IF st.mounted = "mounted"
              THEN [st EXCEPT !.readyListener = FALSE, !.modelListeners = FALSE]
              ELSE st
        s2 == IF s1.viewerInstance # 0
              THEN [s1 EXCEPT !.viewerDisposed = TRUE] ELSE s1
    IN [s2 EXCEPT !.mounted = "unmounted"]

P1_Mount ==
    /\ variant = "P1" /\ p1.mounted = "pre"
    /\ p1' = P1_onMounted(p1)
    /\ UNCHANGED <<variant, bs, p0, p2>>

\* The viewer element dispatches viewerready.
P1_ViewerReady ==
    /\ variant = "P1" /\ p1.readyListener /\ p1.readyEvents < MaxInits
    /\ \E hasViewer \in BOOLEAN :
          p1' = [P1_onViewerReady(p1, hasViewer) EXCEPT !.readyEvents = @ + 1]
    /\ UNCHANGED <<variant, bs, p0, p2>>

\* The file input is disabled while isLoading or not isViewerReady (line 12).
P1_FileChosen ==
    /\ variant = "P1" /\ p1.mounted = "mounted" /\ p1.nextLoad <= MaxLoads
    /\ ~p1.isLoading /\ p1.isViewerReady
    /\ \E hasFile \in BOOLEAN :
          /\ p1' = P1_handleFileChange(p1, hasFile)
          /\ p1' # p1
    /\ UNCHANGED <<variant, bs, p0, p2>>

\* The button is disabled unless isModelLoaded, not isLoading, isViewerReady.
P1_ClearClicked ==
    /\ variant = "P1" /\ p1.mounted = "mounted" /\ p1.nextLoad <= MaxLoads
    /\ p1.isModelLoaded /\ ~p1.isLoading /\ p1.isViewerReady
    /\ \E fires \in BOOLEAN : p1' = P1_clearModel(p1, fires)
    /\ UNCHANGED <<variant, bs, p0, p2>>

\* The promise of loadModel call c settles: it resolves (ok) or rejects.
P1_SettleCall(c, ok) ==
    /\ variant = "P1"
    /\ \E msg \in RejectMessages :
          /\ c \in p1.calls
          /\ ~c.settled
          /\ c.outcome \in {"open", IF ok THEN "ok" ELSE "fail"}
          /\ LET d == [c EXCEPT !.settled = TRUE,
                                !.outcome = IF ok THEN "ok" ELSE "fail"]
                 s1 == P1_Update(p1, c, d)
             IN p1' = IF c.kind = "file" THEN P1_afterLoad(s1, ok, msg)
                      ELSE P1_afterClear(s1, ok)
    /\ UNCHANGED <<variant, bs, p0, p2>>

P1_Settle == \E c \in p1.calls, ok \in BOOLEAN : P1_SettleCall(c, ok)

\* The viewer dispatches the event of loadModel call c on the element:
\* modelchange (ok) or modelerror.
P1_DispatchCall(c, ok) ==
    /\ variant = "P1"
    /\ \E msg \in RejectMessages, hasError \in BOOLEAN :
          /\ c \in p1.calls
          /\ ~c.dispatched
          /\ c.outcome \in {"open", IF ok THEN "ok" ELSE "fail"}
          /\ LET d == [c EXCEPT !.dispatched = TRUE,
                                !.outcome = IF ok THEN "ok" ELSE "fail"]
                 s1 == P1_Update(p1, c, d)
             IN p1' = IF ~s1.modelListeners THEN s1
                      ELSE IF ok THEN P1_onModelChange(s1, c.kind = "file")
                      ELSE P1_onModelError(s1, msg, hasError)
    /\ UNCHANGED <<variant, bs, p0, p2>>

P1_Dispatch == \E c \in p1.calls, ok \in BOOLEAN : P1_DispatchCall(c, ok)

P1_Unmount ==
    /\ variant = "P1" /\ p1.mounted = "mounted"
    /\ p1' = P1_onBeforeUnmount(p1)
    /\ UNCHANGED <<variant, bs, p0, p2>>

P1Next ==
    \/ P1_Mount \/ P1_ViewerReady \/ P1_FileChosen \/ P1_ClearClicked
    \/ P1_Settle \/ P1_Dispatch \/ P1_Unmount

(***************************************************************************)
(*               part_002 (P2), the component with a modelUrl prop         *)
(***************************************************************************)

\* The values the modelUrl prop takes; url.startsWith('blob:') holds of BlobUrls.
Urls == {"", "model.glb", "other.glb", "blob:model"}
BlobUrls == {"blob:model"}

\* Where the try block of initializeBabylon can throw: in the constructor of
\* the engine, the scene, the camera or the light, or nowhere.
FailPoints == {"none", "engine", "scene", "camera", "light"}

P2Init ==
    [mounted |-> "pre",          \* "mounted": babylonCanvas.value is set
     modelUrl |-> "",
     isLoading |-> FALSE,
     errorLoading |-> NULL,
     hasModel |-> FALSE,
     engine |-> 0, scene |-> 0,  \* 0 is null, n > 0 the object of the n-th set-up
     camera |-> NoCamera,
     resize |-> FALSE,           \* handleResize registered on window
     loops |-> {},               \* engines whose render loop runs
     liveEngines |-> {}, liveScenes |-> {},   \* created and not disposed
     redisposed |-> {},          \* objects dispose() was called on again
     nextGen |-> 1,
     reads |-> {},               \* FileReader reads in flight
     imports |-> {},             \* ImportMeshAsync calls in flight
     nextLoad |-> 1,
     emitted |-> [loaded |-> 0, error |-> 0],
     uncaught |-> FALSE]         \* an exception left a handler

\* ArcRotateCamera of initializeBabylon: radius 10, limits 2 .. 50.
P2_NewCamera ==
    [exists |-> TRUE, target |-> Zero3, radius |-> 1000,
     lowerRadiusLimit |-> 200, upperRadiusLimit |-> 5000]

\* scene.dispose().  On null the call throws a TypeError.
P2_DisposeScene(st, sc) ==
    IF sc = 0 THEN [st EXCEPT !.uncaught = TRUE]
    ELSE [st EXCEPT !.liveScenes = @ \ {sc},
                    !.redisposed = IF sc \in st.liveScenes THEN @
                                   ELSE @ \cup {<<"scene", sc>>}]

\* engine.stopRenderLoop().  Throws on null.
P2_StopRenderLoop(st, e) ==
    IF e = 0 THEN [st EXCEPT !.uncaught = TRUE]
    ELSE [st EXCEPT !.loops = @ \ {e}]

\* An engine.dispose() that releases nothing.
P2_DisposeEngine_Leak(st, e) ==
    IF e = 0 THEN [st EXCEPT !.uncaught = TRUE] ELSE st

\* engine.dispose(): stops the render loop and disposes the engine's scenes.
\* Throws on null.
P2_DisposeEngine(st, e) ==
    IF e = 0 THEN [st EXCEPT !.uncaught = TRUE]
    ELSE [st EXCEPT !.liveEngines = @ \ {e},
                    !.liveScenes = @ \ {e},
                    !.loops = @ \ {e},
                    !.redisposed = IF e \in st.liveEngines THEN @
                                   ELSE @ \cup {<<"engine", e>>}]

\* A disposeBabylon that keeps the engine reference after disposing it.
disposeBabylon_KeepEngine(st) ==
    LET s1 == [st EXCEPT !.resize = FALSE] IN
    IF s1.engine # 0
    THEN LET s2 == P2_StopRenderLoop(s1, s1.engine)
             s3 == IF s2.scene # 0
                   THEN [P2_DisposeScene(s2, s2.scene) EXCEPT !.scene = 0]
                   ELSE s2
             s4 == P2_DisposeEngine(s3, s3.engine)
         IN [s4 EXCEPT !.camera = NoCamera]
    ELSE s1

\* disposeBabylon (lines 214-226).
disposeBabylon(st) ==
    LET s1 == [st EXCEPT !.resize = FALSE] IN
    IF s1.engine # 0
    THEN LET s2 == P2_StopRenderLoop(s1, s1.engine)
             s3 == IF s2.scene # 0
                   THEN [P2_DisposeScene(s2, s2.scene) EXCEPT !.scene = 0]
                   ELSE s2
             s4 == P2_DisposeEngine(s3, s3.engine)
         IN [s4 EXCEPT !.engine = 0, !.camera = NoCamera]
    ELSE s1

P2_emit(st, name) ==
    IF name = "model-loaded"
    THEN [st EXCEPT !.emitted.loaded = @ + 1]
    ELSE [st EXCEPT !.emitted.error = @ + 1]

\* e.message || 'Unknown error occurred.'
P2_Message(msg) == IF msg # "" THEN msg ELSE "Unknown error occurred."

\* A framing that looks at the first mesh only.
P2_Frame_FirstMesh(cam, file) ==
    LET lo == file[1].minimumWorld
        hi == file[1].maximumWorld
        size == MaxAxis(lo, hi)
        radius == size * 150
    IN [cam EXCEPT !.target = Center100(lo, hi),
                   !.radius = radius,
                   !.lowerRadiusLimit = size * 10,
                   !.upperRadiusLimit = radius * 5]

\* Lines 172-192 and 268-288: the bounds from the first mesh on, the camera
\* target at their center, radius 1.5 x the largest axis, limits rewritten.
P2_Frame(cam, file) ==
    LET Lo[i \in 1..Len(file)] ==
            IF i = 1 THEN file[1].minimumWorld
            ELSE Minimize(Lo[i - 1], file[i].minimumWorld)
        Hi[i \in 1..Len(file)] ==
            IF i = 1 THEN file[1].maximumWorld
            ELSE Maximize(Hi[i - 1], file[i].maximumWorld)
        lo == Lo[Len(file)]
        hi == Hi[Len(file)]
        size == MaxAxis(lo, hi)
        radius == size * 150
    IN [cam EXCEPT !.target = Center100(lo, hi),
                   !.radius = radius,
                   !.lowerRadiusLimit = size * 10,
                   !.upperRadiusLimit = radius * 5]

\* A loadModel whose blob branch returns past the finally block.
P2_loadModel_NoFinally(st, url) ==
    IF st.scene = 0 THEN st
    ELSE LET s1 == [st EXCEPT !.isLoading = TRUE, !.errorLoading = NULL] IN
         IF url \in BlobUrls
         THEN [s1 EXCEPT !.errorLoading =
                             "Please use the Add Model button to load models."]
         ELSE [s1 EXCEPT !.imports = @ \cup
                             {[id |-> s1.nextLoad, scene |-> s1.scene, src |-> "url"]},
                         !.nextLoad = @ + 1]

\* loadModel up to its await, or to its return when it does not import.
P2_loadModel(st, url) ==
    IF st.scene = 0 THEN st
    ELSE LET s1 == [st EXCEPT !.isLoading = TRUE, !.errorLoading = NULL] IN
         IF url \in BlobUrls
         THEN [s1 EXCEPT !.errorLoading =
                             "Please use the Add Model button to load models.",
                         !.isLoading = FALSE]
         ELSE [s1 EXCEPT !.imports = @ \cup
                             {[id |-> s1.nextLoad, scene |-> s1.scene, src |-> "url"]},
                         !.nextLoad = @ + 1]

\* The framing code throws a TypeError inside the try: getBoundingInfo on a
\* mesh that has none, or setTarget on a null camera.
P2_FrameThrows(cam, file) ==
    /\ Len(file) > 0
    /\ \/ \E i \in 1..Len(file) : ~file[i].hasBoundingInfo
       \/ ~cam.exists

\* loadModel after its await (lines 169-205), then the finally of the
\* initializeBabylon that awaits it.  The camera is the one the variable
\* holds now.
P2_loadModelSettled(st, imp, ok, file, msg) ==
    LET s1 == [st EXCEPT !.imports = @ \ {imp}]
        s2 == IF ~ok
              THEN P2_emit([s1 EXCEPT !.errorLoading = P2_Message(msg)], "model-error")
              ELSE IF P2_FrameThrows(s1.camera, file)
              THEN P2_emit([s1 EXCEPT !.errorLoading =
                                "Cannot read properties of null"], "model-error")
              ELSE P2_emit([s1 EXCEPT !.camera = IF Len(file) > 0
                                                 THEN P2_Frame(@, file) ELSE @,
                                      !.hasModel = TRUE], "model-loaded")
    IN [s2 EXCEPT !.isLoading = FALSE]

\* initializeBabylon up to its await, or to its end when nothing is imported.
P2_initializeBabylon(st, failAt) ==
    IF st.mounted # "mounted" THEN st
    ELSE LET g == st.nextGen
             s1 == [disposeBabylon(st) EXCEPT !.isLoading = TRUE,
                                              !.errorLoading = NULL,
                                              !.hasModel = FALSE,
                                              !.nextGen = g + 1]
             s2 == IF failAt = "engine" THEN s1
                   ELSE [s1 EXCEPT !.engine = g, !.liveEngines = @ \cup {g}]
             s3 == IF failAt \in {"engine", "scene"} THEN s2
                   ELSE [s2 EXCEPT !.scene = g, !.liveScenes = @ \cup {g}]
             s4 == IF failAt \in {"engine", "scene", "camera"} THEN s3
                   ELSE [s3 EXCEPT !.camera = P2_NewCamera]
             s5 == IF failAt # "none" THEN s4
                   ELSE [s4 EXCEPT !.loops = @ \cup {g}, !.resize = TRUE]
         IN IF failAt # "none"
            THEN [P2_emit([s5 EXCEPT !.errorLoading = P2_Message("")], "model-error")
                     EXCEPT !.isLoading = FALSE]
            ELSE IF s5.modelUrl # ""
            THEN P2_loadModel(s5, s5.modelUrl)
            ELSE [s5 EXCEPT !.isLoading = FALSE]

\* handleFileSelected up to reader.readAsArrayBuffer.
P2_handleFileSelected(st, hasFile) ==
    IF ~hasFile \/ st.scene = 0 THEN st
    ELSE [st EXCEPT !.isLoading = TRUE,
                    !.errorLoading = NULL,
                    !.reads = @ \cup {st.nextLoad},
                    !.nextLoad = @ + 1]

\* A reader.onload whose empty-content return leaves isLoading set.
P2_onReaderDone_StillLoading(st, r, outcome) ==
    LET s1 == [st EXCEPT !.reads = @ \ {r}] IN
    CASE outcome = "error" ->
            [s1 EXCEPT !.errorLoading = "Error: Failed to read the file",
                       !.isLoading = FALSE]
      [] outcome = "empty" ->
            [s1 EXCEPT !.errorLoading = "Error: Could not read file"]
      [] OTHER ->
            [s1 EXCEPT !.imports = @ \cup
                           {[id |-> r, scene |-> s1.scene, src |-> "file"]}]

\* reader.onload up to its await, and reader.onerror.  The import is started
\* on the scene the variable holds now.
P2_onReaderDone(st, r, outcome) ==
    LET s1 == [st EXCEPT !.reads = @ \ {r}] IN
    CASE outcome = "error" ->
            [s1 EXCEPT !.errorLoading = "Error: Failed to read the file",
                       !.isLoading = FALSE]
      [] outcome = "empty" ->
            [s1 EXCEPT !.errorLoading = "Error: Could not read file",
                       !.isLoading = FALSE]
      [] OTHER ->
            [s1 EXCEPT !.imports = @ \cup
                           {[id |-> r, scene |-> s1.scene, src |-> "file"]}]

\* reader.onload after its await (lines 265-301).
P2_onloadSettled(st, imp, ok, file, msg) ==
    LET s1 == [st EXCEPT !.imports = @ \ {imp}]
        s2 == IF ~ok
              THEN P2_emit([s1 EXCEPT !.errorLoading = P2_Message(msg)], "model-error")
              ELSE IF P2_FrameThrows(s1.camera, file)
              THEN P2_emit([s1 EXCEPT !.errorLoading =
                                "Cannot read properties of null"], "model-error")
              ELSE P2_emit([s1 EXCEPT !.camera = IF Len(file) > 0
                                                 THEN P2_Frame(@, file) ELSE @,
                                      !.hasModel = TRUE], "model-loaded")
    IN [s2 EXCEPT !.isLoading = FALSE]

\* onUnmounted.
P2_onUnmounted(st) == disposeBabylon([st EXCEPT !.mounted = "unmounted"])

\* The watcher of props.modelUrl.
P2_watchModelUrl(st, newUrl, failAt) ==
    LET s1 == [st EXCEPT !.modelUrl = newUrl] IN
    IF newUrl # "" /\ newUrl # st.modelUrl /\ s1.mounted = "mounted"
    THEN P2_initializeBabylon(s1, failAt)
    ELSE s1

\* onMounted, with the modelUrl the parent passes.
P2_Mount ==
    /\ variant = "P2" /\ p2.mounted = "pre"
    /\ \E url \in Urls, failAt \in FailPoints :
          p2' = P2_initializeBabylon(
                    [p2 EXCEPT !.mounted = "mounted", !.modelUrl = url], failAt)
    /\ UNCHANGED <<variant, bs, p0, p1>>

\* The parent changes the modelUrl prop.
P2_ModelUrlChanged ==
    /\ variant = "P2" /\ p2.mounted = "mounted" /\ p2.nextGen <= MaxInits
    /\ \E newUrl \in Urls \ {p2.modelUrl}, failAt \in FailPoints :
          p2' = P2_watchModelUrl(p2, newUrl, failAt)
    /\ UNCHANGED <<variant, bs, p0, p1>>

\* The overlay with the file input is rendered only while neither hasModel
\* nor isLoading (v-if, line 6).
P2_FileChosen ==
    /\ variant = "P2" /\ p2.mounted = "mounted" /\ p2.nextLoad <= MaxLoads
    /\ ~p2.hasModel /\ ~p2.isLoading
    /\ \E hasFile \in BOOLEAN :
          /\ p2' = P2_handleFileSelected(p2, hasFile)
          /\ p2' # p2
    /\ UNCHANGED <<variant, bs, p0, p1>>

P2_ReaderDone ==
    /\ variant = "P2"
    /\ \E r \in p2.reads, outcome \in {"content", "empty", "error"} :
          p2' = P2_onReaderDone(p2, r, outcome)
    /\ UNCHANGED <<variant, bs, p0, p1>>

\* The completion handler of import imp: that of loadModel or of reader.onload.
P2_Settled(st, imp, ok, file, msg) ==
    IF imp.src = "url"
    THEN P2_loadModelSettled(st, imp, ok, file, msg)
    ELSE P2_onloadSettled(st, imp, ok, file, msg)

\* An ImportMeshAsync promise resolves with a mesh list.
P2_ImportResolvedOf(files) ==
    /\ variant = "P2"
    /\ \E imp \in p2.imports, file \in files :
          p2' = P2_Settled(p2, imp, TRUE, file, "")
    /\ UNCHANGED <<variant, bs, p0, p1>>

P2_ImportResolved == P2_ImportResolvedOf(ModelFiles)

\* An ImportMeshAsync promise rejects.
P2_ImportRejected ==
    /\ variant = "P2"
    /\ \E imp \in p2.imports, msg \in RejectMessages :
          p2' = IF imp.src = "url"
                THEN P2_loadModelSettled(p2, imp, FALSE, << >>, msg)
                ELSE P2_onloadSettled(p2, imp, FALSE, << >>, msg)
    /\ UNCHANGED <<variant, bs, p0, p1>>

P2_Unmount ==
    /\ variant = "P2" /\ p2.mounted = "mounted"
    /\ p2' = P2_onUnmounted(p2)
    /\ UNCHANGED <<variant, bs, p0, p1>>

P2Next ==
    \/ P2_Mount \/ P2_ModelUrlChanged \/ P2_FileChosen \/ P2_ReaderDone
    \/ P2_ImportResolved \/ P2_ImportRejected \/ P2_Unmount

Init ==
    /\ variant \in Variants
    /\ bs = BSInit
    /\ p0 = P0Init
    /\ p1 = P1Init
    /\ p2 = P2Init

Next == BSNext \/ P0Next \/ P1Next \/ P2Next

Spec == Init /\ [][Next]_vars

\* The browser finishes every file read, the engine settles every import, and
\* the viewer settles every loadModel promise and dispatches its event.
Fairness ==
    /\ WF_vars(P1_Settle)
    /\ WF_vars(P1_Dispatch)
    /\ WF_vars(P2_ReaderDone)
    /\ WF_vars(P2_ImportResolved \/ P2_ImportRejected)

\* The framing code on its own: the three components that frame, each from
\* mount through load requests to imports that deliver any list of MeshLists.
FrameInit == Init /\ variant \in {"BS", "P0", "P2"}

BS_ImportAnyList == BS_ImportSuccessOf(MeshLists)
P0_ImportAnyList == P0_ImportSuccessOf(MeshLists)
P2_ImportAnyList == P2_ImportResolvedOf(MeshLists)

FrameNext ==
    \/ BS_Mount \/ BS_WindowLoad \/ BS_FileChosen \/ BS_ReaderDone
    \/ BS_ImportAnyList
    \/ P0_Mount \/ P0_FileChosen \/ P0_ImportAnyList
    \/ P2_Mount \/ P2_FileChosen \/ P2_ReaderDone \/ P2_ImportAnyList

FrameSpec == FrameInit /\ [][FrameNext]_vars

\* The two components with an isLoading flag, under those assumptions.
LoadInit == Init /\ variant \in {"P1", "P2"}

LoadNext == P1Next \/ P2Next

FairSpec == LoadInit /\ [][LoadNext]_vars /\ Fairness
(***************************************************************************)
(*                               Properties                                *)
(***************************************************************************)

ImportsIn(ms) == {m.imp : m \in {x \in ms : x.idx > 0}}

\* C1: in BS and P0 the meshes of a scene that are not disposed never come
\* from two different imports.
C1_OneImportInScene ==
    /\ variant = "BS" =>
          \A sc \in 1..bs.nextGen :
             Cardinality(ImportsIn({m \in bs.meshes : m.scene = sc})) <= 1
    /\ variant = "P0" => Cardinality(ImportsIn(p0.meshes)) <= 1

\* C3: in P2 at most one ImportMeshAsync call is in flight.
C3_OneImportInFlight == variant = "P2" => Cardinality(p2.imports) <= 1

\* C8: in BS initScene builds at most one engine, scene, render loop and
\* resize listener in the life of the component.
C8_InitSceneOnce ==
    variant = "BS" =>
       /\ bs.nextGen <= 2
       /\ Cardinality(bs.loops) <= 1
       /\ Cardinality(bs.resizeListeners) <= 1

\* C9: once the component is torn down, no render loop runs, no scene, engine
\* or viewer of the component is left undisposed, every mesh the component
\* tracks is disposed, and no listener the component registered on the
\* window, the canvas or the viewer element is still registered.
C9_TeardownReleasesAll ==
    /\ (variant = "BS" /\ bs.mounted = "unmounted") =>
          /\ bs.loops = {} /\ bs.liveScenes = {} /\ bs.liveEngines = {}
          /\ SeqToSet(bs.loadedModel) \cap bs.meshes = {}
          /\ ~bs.canvasListeners /\ bs.resizeListeners = {} /\ ~bs.loadListener
    /\ (variant = "P1" /\ p1.mounted = "unmounted") =>
          /\ ~p1.readyListener /\ ~p1.modelListeners
          /\ p1.viewerInstance # 0 => p1.viewerDisposed
    /\ (variant = "P2" /\ p2.mounted = "unmounted") =>
          /\ p2.loops = {} /\ p2.liveScenes = {} /\ p2.liveEngines = {}
          /\ ~p2.resize

\* The loads of BS whose read or import has not finished.
BS_Outstanding(st) == st.reads \cup {i.id : i \in st.imports}

\* BS between loads that do not overlap: at most one load is outstanding;
\* while one is, no imported mesh is left undisposed (the previous import was
\* disposed before the new one starts); while none is, the undisposed imported
\* meshes are exactly the meshes of loadedModel, the list of the last import.
BS_Sequential(st) ==
    /\ Cardinality(BS_Outstanding(st)) <= 1
    /\ BS_Outstanding(st) # {} => st.meshes = {} /\ st.loadedModel = << >>
    /\ BS_Outstanding(st) = {} => st.meshes = SeqToSet(st.loadedModel)

\* C2: in BS, as long as a load is requested only after the previous one has
\* completed, a request disposes every mesh of the previous import before the
\* new import starts, and the completion of the new import leaves exactly its
\* meshes undisposed, with loadedModel that list.  (Every step of the mounted
\* component that does not make two loads overlap keeps BS_Sequential, and
\* the meshes a step leaves in a changed scene are those of the load that was
\* outstanding.)
C2_SequentialLoadReplacesModel ==
    [][(/\ variant = "BS"
        /\ bs'.mounted = bs.mounted
        /\ BS_Sequential(bs)
        /\ Cardinality(BS_Outstanding(bs')) <= 1)
       => /\ BS_Sequential(bs')
          /\ bs'.meshes # bs.meshes =>
                \A m \in bs'.meshes : m.imp \in BS_Outstanding(bs)]_vars

\* C2 witness: the second load has completed after the first, and the scene
\* holds exactly its meshes.
C2_Witness ==
    /\ variant = "BS" /\ bs.mounted = "mounted"
    /\ BS_Sequential(bs) /\ BS_Outstanding(bs) = {}
    /\ bs.nextLoad = 3 /\ Len(bs.loadedModel) = 2 /\ bs.loadedModel[1].imp = 2

\* C4: in P1 at most one loadModel call of the viewer is pending.
C4_OneLoadModelPending ==
    variant = "P1" => Cardinality({c \in p1.calls : ~c.settled}) <= 1

Message(m) == m # NULL /\ m # ""

\* C5: in P1 and P2 a rejected import, or a delivered modelerror event, leaves
\* the has-model flag false and a non-empty error message, and a load that
\* completes successfully leaves the error message null.
C5_FailureSetsErrorSuccessClearsIt ==
    [][/\ (variant = "P2" /\ P2_ImportRejected) =>
             ~p2'.hasModel /\ Message(p2'.errorLoading)
       /\ (variant = "P2" /\ P2_ImportResolved
              /\ p2'.emitted.loaded = p2.emitted.loaded + 1) =>
             p2'.errorLoading = NULL
       /\ (\E c \in p1.calls : c.kind = "file" /\ P1_SettleCall(c, FALSE)) =>
             ~p1'.isModelLoaded /\ Message(p1'.loadError)
       /\ (p1.modelListeners /\ \E c \in p1.calls : P1_DispatchCall(c, FALSE)) =>
             ~p1'.isModelLoaded /\ Message(p1'.loadError)
       /\ (p1.modelListeners
              /\ \E c \in p1.calls : c.kind = "file" /\ P1_DispatchCall(c, TRUE)) =>
             p1'.loadError = NULL]_vars

\* C6 as stated: in P1 and P2 isLoading, once true, becomes false again, and
\* no exception leaves a handler.
C6_LoadingAlwaysClears ==
    /\ (variant = "P1" /\ p1.isLoading) ~> ~p1.isLoading
    /\ (variant = "P2" /\ p2.isLoading) ~> ~p2.isLoading
    /\ [](~p1.uncaught /\ ~p2.uncaught)

\* C6 amended: in P2 isLoading, once true, becomes false again; in P1 it
\* becomes false again or the component is unmounted; no exception leaves a
\* handler.
C6_LoadingClearsWhileMounted ==
    /\ (variant = "P1" /\ p1.isLoading) ~>
          (~p1.isLoading \/ p1.mounted = "unmounted")
    /\ (variant = "P2" /\ p2.isLoading) ~> ~p2.isLoading
    /\ [](~p1.uncaught /\ ~p2.uncaught)

\* C6 witness: loads have cleared the flag on every path: P2 shows a read
\* error with the flag cleared, P1 a delivered modelchange.
C6_Witness ==
    \/ /\ variant = "P2" /\ ~p2.isLoading /\ p2.reads = {} /\ p2.imports = {}
       /\ p2.errorLoading = "Error: Failed to read the file"
    \/ /\ variant = "P1" /\ ~p1.isLoading /\ p1.isModelLoaded /\ p1.calls = {}
       /\ p1.nextLoad > 1

\* C7: the completion of an import whose scene has been disposed (by teardown
\* or, in P2, by a new initializeBabylon) changes no UI flag, emits no event
\* and touches no camera, mesh or mesh list.
C7_StaleCompletionIgnored ==
    [][/\ variant = "P2" =>
             \A imp \in p2.imports :
                (imp \notin p2'.imports /\ imp.scene \notin p2.liveScenes) =>
                   /\ p2'.hasModel = p2.hasModel
                   /\ p2'.isLoading = p2.isLoading
                   /\ p2'.errorLoading = p2.errorLoading
                   /\ p2'.emitted = p2.emitted
                   /\ p2'.camera = p2.camera
       /\ variant = "BS" =>
             \A imp \in bs.imports :
                (imp \notin bs'.imports /\ bs.mounted = "unmounted") =>
                   /\ bs'.loadingStatus = bs.loadingStatus
                   /\ bs'.camera = bs.camera
                   /\ bs'.meshes = bs.meshes
                   /\ bs'.loadedModel = bs.loadedModel]_vars

\* C10: in every state P2 reaches (before any engine exists, after an
\* initializeBabylon that threw part-way, after a teardown) disposeBabylon
\* raises no error, leaves engine, scene and camera null and the resize
\* listener removed, disposes nothing a second time, and a second call right
\* after it changes nothing; in BS onBeforeUnmount raises no error when
\* initScene never ran.
C10_TeardownIdempotent ==
    /\ variant = "P2" =>
          LET d == disposeBabylon(p2) IN
          /\ ~p2.uncaught /\ p2.redisposed = {}
          /\ ~d.uncaught /\ d.redisposed = {}
          /\ d.engine = 0 /\ d.scene = 0 /\ ~d.camera.exists /\ ~d.resize
          /\ d.liveEngines = {} /\ d.liveScenes = {} /\ d.loops = {}
          /\ disposeBabylon(d) = d
    /\ variant = "BS" =>
          /\ ~bs.uncaught
          /\ (bs.mounted = "mounted" /\ bs.engine = 0) =>
                ~BS_onBeforeUnmount(bs).uncaught

\* C10 witness: initializeBabylon threw after creating the engine and before
\* creating the scene, and disposeBabylon releases that engine.
C10_Witness ==
    /\ variant = "P2" /\ p2.mounted = "mounted"
    /\ p2.engine # 0 /\ p2.scene = 0 /\ ~p2.camera.exists
    /\ p2.engine \in p2.liveEngines /\ p2.emitted.error > 0
    /\ disposeBabylon(p2).liveEngines = {}

\* C11: in P1, while the viewer is not ready (isViewerReady false or no viewer
\* instance), a load request and a clear request each make no call to the
\* viewer, leave isLoading and isModelLoaded as they are and leave a non-empty
\* message in loadError.
C11_NotReadyRequestReported ==
    (variant = "P1" /\ p1.mounted = "mounted"
        /\ (~p1.isViewerReady \/ p1.viewerInstance = 0)) =>
       \A r \in {P1_handleFileChange(p1, TRUE), P1_clearModel(p1, TRUE)} :
          /\ r.calls = p1.calls
          /\ r.isLoading = p1.isLoading
          /\ r.isModelLoaded = p1.isModelLoaded
          /\ Message(r.loadError)

\* C12: every step that starts an import starts it on a set-up that exists: in
\* P2 on the current scene, with the engine and the camera created; in BS on a
\* scene initScene has created.
C12_NoImportBeforeInit ==
    [][/\ variant = "P2" =>
             \A imp \in p2'.imports \ p2.imports :
                /\ imp.scene # 0 /\ imp.scene = p2'.scene
                /\ p2'.engine # 0 /\ p2'.camera.exists
       /\ variant = "BS" =>
             \A imp \in bs'.imports \ bs.imports : imp.scene # 0]_vars

\* C13: an import that completes with no mesh sets a user-visible message,
\* clears the loading indication and leaves the camera as it is, in BS and
\* in P2.
C13_ZeroMeshesIsWarning ==
    [][/\ \A imp \in bs.imports :
             (variant = "BS" /\ bs' = BS_onSuccess(bs, imp, << >>)) =>
                /\ bs'.loadingStatus = "Warning: No meshes were loaded"
                /\ bs'.camera = bs.camera
                /\ bs'.framingTimers = bs.framingTimers
       /\ \A imp \in p2.imports :
             (variant = "P2" /\ p2' = P2_Settled(p2, imp, TRUE, << >>, "")) =>
                /\ Message(p2'.errorLoading)
                /\ ~p2'.isLoading
                /\ p2'.camera = p2.camera]_vars

(***************************************************************************)
(* What the framing is specified to compute: the union of the world        *)
(* bounding boxes of a mesh list, taken over the set of its meshes.        *)
(***************************************************************************)
MinOf(S) == CHOOSE x \in S : \A y \in S : x <= y
MaxOf(S) == CHOOSE x \in S : \A y \in S : x >= y

UnionMin(ms) == [k \in 1..3 |-> MinOf({m.minimumWorld[k] : m \in ms})]
UnionMax(ms) == [k \in 1..3 |-> MaxOf({m.maximumWorld[k] : m \in ms})]
UnionCenter100(ms) ==
    [k \in 1..3 |-> ((UnionMin(ms)[k] + UnionMax(ms)[k]) * 100) \div 2]
UnionExtent(ms) == MaxOf({UnionMax(ms)[k] - UnionMin(ms)[k] : k \in 1..3})

AllBounded(file) == \A i \in 1..Len(file) : file[i].hasBoundingInfo

IsPermutation(f, g) ==
    /\ Len(f) = Len(g)
    /\ \E pi \in [1..Len(f) -> 1..Len(f)] :
          /\ \A i, j \in 1..Len(f) : pi[i] = pi[j] => i = j
          /\ \A i \in 1..Len(f) : g[i] = f[pi[i]]

\* A double is finite when its magnitude does not exceed Number.MAX_VALUE
\* (the argument is in hundredths).
Finite100(x) == 0 - 100 * MAX_VALUE <= x /\ x <= 100 * MAX_VALUE

\* C14: in P2 the completion of an import (loadModel or reader.onload) with a
\* non-empty list of meshes that have bounding boxes sets the camera target to
\* the midpoint of the union of the boxes and the radius to 1.5 x its largest
\* axis, the same for every ordering of the list; the boxes
\* [(-1,-1,-1),(1,1,1)] and [(0,0,0),(2,2,2)] give (0.5,0.5,0.5) and 3.
C14_P2FramesUnionOfBoxes ==
    [][\A imp \in p2.imports, file \in MeshLists :
          (/\ variant = "P2" /\ p2.camera.exists
           /\ Len(file) > 0 /\ AllBounded(file)
           /\ p2' = P2_Settled(p2, imp, TRUE, file, "")) =>
             /\ p2'.camera.target = UnionCenter100(SeqToSet(file))
             /\ p2'.camera.radius * 2 = 3 * 100 * UnionExtent(SeqToSet(file))
             /\ \A g \in MeshLists :
                   IsPermutation(file, g) => P2_Frame(p2.camera, g) = p2'.camera
             /\ file = <<BodyMesh, WheelMesh>> =>
                   /\ p2'.camera.target = <<50, 50, 50>>
                   /\ UnionExtent(SeqToSet(file)) = 3]_vars

\* C14 witness: P2 has framed the two boxes of the example.
C14_Witness ==
    /\ variant = "P2" /\ p2.hasModel /\ p2.camera.exists
    /\ p2.camera.target = <<50, 50, 50>> /\ p2.camera.radius = 450

\* C15: in BS the completion of an import with a non-empty list of meshes that
\* have bounding boxes, of any sign, puts the model root at minus the midpoint
\* of the union of the boxes and sets the camera radius to 2 x its largest
\* axis.
C15_BSFramesUnionOfBoxes ==
    [][\A imp \in bs.imports, file \in MeshLists :
          (/\ variant = "BS" /\ bs.camera.exists
           /\ Len(file) > 0 /\ AllBounded(file)
           /\ bs' = BS_onSuccess(bs, imp, file)) =>
             /\ BS_Min(file) = UnionMin(SeqToSet(file))
             /\ BS_Max(file) = UnionMax(SeqToSet(file))
             /\ bs'.modelRoot.position = Negate(UnionCenter100(SeqToSet(file)))
             /\ bs'.camera.radius = 2 * 100 * UnionExtent(SeqToSet(file))]_vars

\* C16: an import that delivers no mesh the framing can use never gives the
\* camera a non-finite value: in P0 calculateBoundingInfo returns the origin
\* and 5 and the camera gets finite numbers; in P2 the camera keeps its
\* target, radius and limits.
C16_NothingToFrame ==
    [][/\ \A imp \in p0.imports, file \in MeshLists :
             (/\ variant = "P0" /\ SelectSeq(file, P0_Qualifies) = << >>
              /\ p0' = P0_onSuccess(p0, imp, file)) =>
                /\ P0_calculateBoundingInfo(file) = [center |-> Zero3, radius |-> 500]
                /\ p0'.camera.target = Zero3
                /\ Finite100(p0'.camera.radius)
       /\ \A imp \in p2.imports, file \in MeshLists :
             (/\ variant = "P2"
              /\ \A i \in 1..Len(file) : ~file[i].hasBoundingInfo
              /\ p2' = P2_Settled(p2, imp, TRUE, file, "")) =>
                p2'.camera = p2.camera]_vars

\* C16 witness: P0 has framed a list without a qualifying mesh (radius
\* 2.5 x 5), or P2 has completed such an import with its camera at the
\* initial values.
C16_Witness ==
    \/ /\ variant = "P0" /\ p0.modelLoaded
       /\ p0.camera.target = Zero3 /\ p0.camera.radius = 1250
    \/ /\ variant = "P2" /\ p2.hasModel /\ p2.camera = P2_NewCamera

\* C17: in BS the camera radius and the model-root position are always finite
\* and the radius is never negative.
C17_BSFramingFinite ==
    variant = "BS" =>
       /\ bs.camera.exists =>
             Finite100(bs.camera.radius) /\ bs.camera.radius >= 0
       /\ bs.modelRoot.exists =>
             \A k \in 1..3 : Finite100(bs.modelRoot.position[k])

BS_SetUpOrTeardown == bs'.nextGen # bs.nextGen \/ bs'.mounted # bs.mounted
P0_SetUpOrTeardown == p0'.mounted # p0.mounted
P2_SetUpOrTeardown == p2'.nextGen # p2.nextGen \/ p2'.mounted # p2.mounted

BS_Completes == \E imp \in bs.imports, file \in ModelFiles :
                    bs' = BS_onSuccess(bs, imp, file)
P0_Completes == \E imp \in p0.imports, file \in ModelFiles :
                    p0' = P0_onSuccess(p0, imp, file)
P2_Completes == \E imp \in p2.imports, file \in ModelFiles :
                    p2' = P2_Settled(p2, imp, TRUE, file, "")

\* C19 as stated: the camera (target, radius, limits, what it is zoomed on)
\* changes only in the completion step of a successful import; no request, no
\* read, no progress report, no failure and no timer changes it.
C19_CameraChangesOnlyAtCompletion ==
    [][/\ bs'.camera # bs.camera => BS_SetUpOrTeardown \/ BS_Completes
       /\ p0'.camera # p0.camera => P0_SetUpOrTeardown \/ P0_Completes
       /\ p2'.camera # p2.camera => P2_SetUpOrTeardown \/ P2_Completes]_vars

\* C19 amended: the camera changes only in the completion step of a
\* successful import or, in BS, when the framing timer that completion armed
\* fires.
C19_CameraChangesAtOrAfterCompletion ==
    [][/\ bs'.camera # bs.camera =>
             \/ BS_SetUpOrTeardown
             \/ BS_Completes
             \/ \E t \in bs.framingTimers : bs' = BS_onFramingTimer(bs, t)
       /\ p0'.camera # p0.camera => P0_SetUpOrTeardown \/ P0_Completes
       /\ p2'.camera # p2.camera => P2_SetUpOrTeardown \/ P2_Completes]_vars

\* C19 witness: in BS a first load has framed the camera and a second load
\* has failed since.
C19_Witness ==
    /\ variant = "BS" /\ bs.nextLoad = 3 /\ bs.imports = {} /\ bs.reads = {}
    /\ bs.loadingStatus = "Error: message"
    /\ bs.camera.exists /\ bs.camera.radius = 400

\* C20: in BS a burst of resize events is answered by exactly one
\* engine.resize() call (none before the debounce timer fires, one when it
\* fires while the engine is set), and neither the resize handler nor its
\* timer touches the render loops.
C20_OneResizePerBurst ==
    [][variant = "BS" =>
          /\ bs'.resizeCalls <= 1
          /\ bs' = BS_onWindowResize(bs) => bs'.loops = bs.loops
          /\ \A g \in bs.resizeTimeout :
                bs' = BS_onResizeTimer(bs, g) =>
                   /\ bs'.loops = bs.loops
                   /\ bs.engine # 0 => bs'.resizeCalls = 1]_vars

\* The qualifying meshes of a list: those with getBoundingInfo that are
\* visible and whose name contains neither "ground" nor "skybox".
Qualifying(file) ==
    {m \in SeqToSet(file) :
        /\ m.hasBoundingInfo /\ m.isVisible
        /\ m.name \notin NamesWithGround \cup NamesWithSkybox}

\* C21: in P0, for a mesh list with at least one qualifying mesh,
\* calculateBoundingInfo returns the midpoint of the union of the qualifying
\* meshes' boxes and half its largest axis, the camera is aimed there, and
\* every list with the same qualifying meshes, in any order and with any
\* other meshes added, gives the same result.
C21_P0BoundsOfQualifyingMeshes ==
    [][\A imp \in p0.imports, file \in MeshLists :
          (/\ variant = "P0" /\ Qualifying(file) # {}
           /\ p0' = P0_onSuccess(p0, imp, file)) =>
             LET info == P0_calculateBoundingInfo(file) IN
             /\ info.center = UnionCenter100(Qualifying(file))
             /\ info.radius * 2 = 100 * UnionExtent(Qualifying(file))
             /\ p0'.camera.target = UnionCenter100(Qualifying(file))
             /\ \A g \in MeshLists :
                   Qualifying(g) = Qualifying(file) =>
                      P0_calculateBoundingInfo(g) = info]_vars

\* C21 witness: P0 has framed the body mesh alone (target origin, radius
\* 2.5 x 1) out of an import that also brought a mesh named "playground".
C21_Witness ==
    /\ variant = "P0" /\ p0.modelLoaded
    /\ p0.camera.target = Zero3 /\ p0.camera.radius = 250
    /\ \E m \in p0.meshes : m.name = "playground"

\* C22: in BS no timer acts on a disposed resource: a framing timer that
\* calls zoomOnMeshesHierarchy finds every mesh of its list undisposed, and a
\* resize debounce timer that calls engine.resize() finds the engine
\* undisposed.
C22_NoTimerOnDisposedResource ==
    [][variant = "BS" =>
          /\ \A t \in bs.framingTimers :
                (/\ bs' = BS_onFramingTimer(bs, t)
                 /\ bs.camera.exists /\ t.scene = bs.scene) =>
                   SeqToSet(t.meshes) \subseteq bs.meshes
          /\ \A g \in bs.resizeTimeout :
                (bs' = BS_onResizeTimer(bs, g) /\ bs.engine # 0) =>
                   bs.engine \in bs.liveEngines]_vars

\* C23: in P2 isLoading is true in every state in which a file read or an
\* import of a load is pending, so the Add Model overlay is not offered then.
C23_LoadingWhilePending ==
    (variant = "P2" /\ p2.mounted = "mounted"
        /\ (p2.reads # {} \/ p2.imports # {})) => p2.isLoading

\* C24: in P0 modelLoaded is true only while the scene holds meshes of a
\* completed import (the imported meshes or the "root" mesh made for them).
C24_ModelLoadedOnlyWithModel ==
    (variant = "P0" /\ p0.modelLoaded) => p0.meshes # {}

\* C25: in P2 every load attempt that passes the scene check emits exactly
\* one event when it ends: model-loaded when its import resolves and the
\* model is shown, model-error otherwise: when the import rejects or its
\* framing throws, when the file cannot be read or reads as empty, and when
\* loadModel is given a blob: URL.
C25_OneEventPerAttempt ==
    [][variant = "P2" =>
          /\ \A imp \in p2.imports, ok \in BOOLEAN, file \in ModelFiles :
                p2' = P2_Settled(p2, imp, ok, file, "Unable to load") =>
                   \/ p2'.emitted = [p2.emitted EXCEPT !.error = @ + 1]
                   \/ ok /\ p2'.hasModel
                         /\ p2'.emitted = [p2.emitted EXCEPT !.loaded = @ + 1]
          /\ \A r \in p2.reads, outcome \in {"empty", "error"} :
                p2' = P2_onReaderDone(p2, r, outcome) =>
                   p2'.emitted = [p2.emitted EXCEPT !.error = @ + 1]
          /\ (/\ p2'.nextGen # p2.nextGen /\ p2'.scene # 0
              /\ p2'.modelUrl \in BlobUrls) =>
                   p2'.emitted = [p2.emitted EXCEPT !.error = @ + 1]]_vars

\* C26: in P2 at most one engine, one scene and one render loop of the
\* component are undisposed, they are the ones the variables hold, and the
\* resize listener (the one function handleResize) is registered only while
\* that engine's loop runs.
C26_OneLiveSetUp ==
    variant = "P2" =>
       /\ Cardinality(p2.liveEngines) <= 1
       /\ Cardinality(p2.liveScenes) <= 1
       /\ Cardinality(p2.loops) <= 1
       /\ p2.liveEngines \subseteq {p2.engine}
       /\ p2.liveScenes \subseteq {p2.scene}
       /\ p2.loops \subseteq {p2.engine}
       /\ p2.resize => p2.loops # {}

\* C26 witness: a second initializeBabylon has replaced the first set-up.
C26_Witness ==
    /\ variant = "P2" /\ p2.mounted = "mounted" /\ p2.nextGen = 3
    /\ p2.liveEngines = {2} /\ p2.liveScenes = {2} /\ p2.loops = {2}
    /\ p2.resize

InLimits(cam) ==
    cam.lowerRadiusLimit <= cam.radius /\ cam.radius <= cam.upperRadiusLimit

\* C27: at the end of the completion step of a successful load with at least
\* one mesh, the camera radius the framing code has set lies within the
\* radius limits of the camera (BS 0.1 .. 100, P0 2 .. 10, P2 the limits the
\* step has just written).
C27_RadiusWithinLimits ==
    [][/\ \A imp \in bs.imports, file \in MeshLists :
             (/\ variant = "BS" /\ Len(file) > 0 /\ bs.camera.exists
              /\ bs' = BS_onSuccess(bs, imp, file)) => InLimits(bs'.camera)
       /\ \A imp \in p0.imports, file \in MeshLists :
             (/\ variant = "P0" /\ Len(file) > 0
              /\ p0' = P0_onSuccess(p0, imp, file)) => InLimits(p0'.camera)
       /\ \A imp \in p2.imports, file \in MeshLists :
             (/\ variant = "P2" /\ Len(file) > 0
              /\ ~P2_FrameThrows(p2.camera, file)
              /\ p2' = P2_Settled(p2, imp, TRUE, file, "")) =>
                InLimits(p2'.camera)]_vars

\* C28: in P2, in every state with a scene, loadModel with a blob: URL
\* starts no import, leaves a non-empty message in errorLoading, leaves
\* hasModel and the camera as they are and returns with isLoading false.
C28_BlobUrlRefused ==
    (variant = "P2" /\ p2.scene # 0) =>
       \A url \in BlobUrls :
          LET r == P2_loadModel(p2, url) IN
          /\ r.imports = p2.imports /\ r.nextLoad = p2.nextLoad
          /\ Message(r.errorLoading)
          /\ r.hasModel = p2.hasModel /\ r.camera = p2.camera
          /\ ~r.isLoading

\* C28 witness: initializeBabylon has called loadModel with the blob: URL.
C28_Witness ==
    /\ variant = "P2" /\ p2.mounted = "mounted" /\ p2.modelUrl \in BlobUrls
    /\ p2.scene # 0 /\ p2.camera = P2_NewCamera
    /\ p2.errorLoading = "Please use the Add Model button to load models."
    /\ ~p2.isLoading /\ ~p2.hasModel /\ p2.imports = {}

\* C29: in P1, in every state, isViewerReady implies a viewer instance and
\* attached modelchange and modelerror listeners, and isViewerReady turns
\* true only in onViewerReady with viewerDetails.viewer present.
C29_ReadyImpliesViewerAndListeners ==
    [][variant = "P1" =>
          /\ p1'.isViewerReady => p1'.viewerInstance # 0 /\ p1'.modelListeners
          /\ (~p1.isViewerReady /\ p1'.isViewerReady) =>
                p1' = [P1_onViewerReady(p1, TRUE) EXCEPT !.readyEvents = @ + 1]]_vars

====
